---- MODULE Spec2Model ----
(***************************************************************************)
(* Model of mypyc/build.py: mypycify (the planning of extension modules)   *)
(* and MypycifyBuildExt (the build_ext command that prepares, compiles and *)
(* patches every extension).                                               *)
(*                                                                         *)
(* Strings are sequences of one-character strings, so that split, replace, *)
(* join and slicing are computed as Python computes them.  File-system     *)
(* paths are sequences of components (each component a string).            *)
(***************************************************************************)
EXTENDS Integers, Sequences, FiniteSets, TLC

\* ------------------------------------------------------------------ bounds
MaxModules == 2
MaxInvocations == 2

\* ----------------------------------------------------------- string helpers
\* x in s, for a one-character x
Contains(s, ch) == \E i \in 1..Len(s) : s[i] = ch

RECURSIVE SplitFrom(_, _, _, _)
SplitFrom(s, sep, i, cur) ==
    IF i > Len(s) THEN <<cur>>
    ELSE IF s[i] = sep THEN <<cur>> \o SplitFrom(s, sep, i + 1, <<>>)
    ELSE SplitFrom(s, sep, i + 1, Append(cur, s[i]))

\* str.split(sep)
Split(s, sep) == SplitFrom(s, sep, 1, <<>>)

RECURSIVE Replace(_, _, _)
\* str.replace(old, new), old a single character
Replace(s, old, new) ==
    IF s = <<>> THEN <<>>
    ELSE (IF Head(s) = old THEN new ELSE <<Head(s)>>) \o Replace(Tail(s), old, new)

RECURSIVE StrJoin(_, _)
\* sep.join(parts)
StrJoin(sep, parts) ==
    IF parts = <<>> THEN <<>>
    ELSE IF Len(parts) = 1 THEN parts[1]
    ELSE parts[1] \o sep \o StrJoin(sep, Tail(parts))

\* position of the last ch in s, 0 when there is none
LastIndexOf(s, ch) ==
    IF Contains(s, ch)
    THEN CHOOSE i \in 1..Len(s) : s[i] = ch /\ \A j \in (i + 1)..Len(s) : s[j] # ch
    ELSE 0

\* os.path.splitext(p)[1] of a file name (a leading dot starts no extension)
SplitextExt(name) ==
    LET k == LastIndexOf(name, ".")
    IN  IF k <= 1 THEN <<>> ELSE SubSeq(name, k, Len(name))

\* os.path.splitext(p)[0]
SplitextRoot(name) ==
    LET k == LastIndexOf(name, ".")
    IN  IF k <= 1 THEN name ELSE SubSeq(name, 1, k - 1)

\* os.path.split(p): (head, tail) of a path of components
PathHead(p) == SubSeq(p, 1, Len(p) - 1)
PathTail(p) == p[Len(p)]

\* os.path.join(a, b), both relative
PathJoin(a, b) == a \o b

\* ------------------------------------------------------------ name literals
INIT_PY == <<"_", "_", "i", "n", "i", "t", "_", "_", ".", "p", "y">>
DOT_INIT == <<".", "_", "_", "i", "n", "i", "t", "_", "_">>
DOT_C == <<".", "c">>
BUILD == <<"b", "u", "i", "l", "d">>
CPY_C == <<"C", "P", "y", ".", "c">>
OPS_TXT == <<"o", "p", "s", ".", "t", "x", "t">>
NATIVE_C == <<"_", "_", "n", "a", "t", "i", "v", "e", ".", "c">>
NATIVE_H == <<"_", "_", "n", "a", "t", "i", "v", "e", ".", "h">>
LIB == <<"l", "i", "b">>
MYPYC_ == <<"m", "y", "p", "y", "c", "_">>
LIB_RT == <<"l", "i", "b", "-", "r", "t">>
None == <<>>

\* ------------------------------------------------------------------ inputs
\* sys.platform values the module distinguishes
Platforms == {"win32", "linux", "darwin"}

\* BuildSource(path, module) records as mypy's process_options builds them:
\* the module of a/b.py and of a/b/__init__.py is a.b
Src(path, module) == [path |-> path, module |-> module]
PY(stem) == stem \o <<".", "p", "y">>
SourceUniverse ==
    { Src(<<PY(<<"a">>)>>, <<"a">>),
      Src(<<<<"a">>, INIT_PY>>, <<"a">>),
      Src(<<PY(<<"b">>)>>, <<"b">>),
      Src(<<<<"a">>, PY(<<"b">>)>>, <<"a", ".", "b">>),
      Src(<<<<"a">>, <<"b">>, INIT_PY>>, <<"a", ".", "b">>),
      Src(<<<<"a">>, <<"b">>, PY(<<"c">>)>>, <<"a", ".", "b", ".", "c">>),
      Src(<<PY(<<"a", "_", "_", "_", "b">>)>>, <<"a", "_", "_", "_", "b">>) }

\* the source lists process_options can return for the paths of a setup.py:
\* no module twice
SourceLists ==
    UNION { { s \in [1..n -> SourceUniverse] :
                \A i, j \in 1..n : i # j => s[i].module # s[j].module } : n \in 0..MaxModules }

\* -------------------------------------------------------------- file system
\* The build directory: a set of files, at most one per path.
File(path, content) == [path |-> path, content |-> content]
Text(kind, modname, full) == [kind |-> kind, modname |-> modname, full |-> full]

\* open(path, 'w').write(content): a file of the same path is overwritten
WriteFile(fs, path, content) ==
    { f \in fs : f.path # path } \cup { File(path, content) }

RECURSIVE SetToSeq(_)
SetToSeq(S) ==
    IF S = {} THEN <<>>
    ELSE LET x == CHOOSE x \in S : TRUE IN <<x>> \o SetToSeq(S \ {x})

\* glob.glob(os.path.join(build_dir, '*.c')): every file of build_dir whose
\* name ends in .c (the order of the result is the directory's order, on
\* which nothing below depends)
GlobC(fs, build_dir) ==
    SetToSeq({ f.path : f \in { g \in fs :
        /\ PathHead(g.path) = build_dir
        /\ Len(PathTail(g.path)) >= 2
        /\ SubSeq(PathTail(g.path), Len(PathTail(g.path)) - 1, Len(PathTail(g.path))) = DOT_C } })

\* ------------------------------------------------------------ MypycifyExtension
\* An Extension with the two mypyc attributes.  mypyc_shared_target refers to
\* another extension of the same list by its position (0: None).
MypycifyExtension(name, is_mypyc_shared, mypyc_shared_target, srcs, include_dirs, extra_compile_args) ==
    [ name |-> name,
      is_mypyc_shared |-> is_mypyc_shared,
      mypyc_shared_target |-> mypyc_shared_target,
      sources |-> srcs,
      include_dirs |-> include_dirs,
      extra_compile_args |-> extra_compile_args,
      libraries |-> <<>>,
      library_dirs |-> <<>>,
      runtime_library_dirs |-> <<>> ]

Flag(opt, val) == [opt |-> opt, val |-> val]

\* ------------------------------------------------------------------ hashing
\* hashlib.sha1(data).hexdigest()[:20] is modelled by the hexadecimal code of
\* data: like the digest it consists of hexadecimal digits only, and it is
\* free of collisions (as the 80 bits of the digest are taken to be).
HexOf(ch) ==
    CASE ch = "a" -> <<"6", "1">>
      [] ch = "b" -> <<"6", "2">>
      [] ch = "c" -> <<"6", "3">>
      [] ch = "." -> <<"2", "e">>
      [] ch = "," -> <<"2", "c">>
      [] ch = "_" -> <<"5", "f">>

RECURSIVE Hexdigest(_)
Hexdigest(s) == IF s = <<>> THEN <<>> ELSE HexOf(Head(s)) \o Hexdigest(Tail(s))

ModuleNames(srcs) == [i \in 1..Len(srcs) |-> srcs[i].module]

\* ord(ch)
Ord(ch) ==
    CASE ch = "," -> 44
      [] ch = "." -> 46
      [] ch = "_" -> 95
      [] ch = "a" -> 97
      [] ch = "b" -> 98
      [] ch = "c" -> 99

\* s < t, as Python orders strings
StrLess(s, t) ==
    \E k \in 1..Len(t) :
        /\ k <= Len(s) + 1
        /\ SubSeq(s, 1, k - 1) = SubSeq(t, 1, k - 1)
        /\ (k = Len(s) + 1 \/ Ord(s[k]) < Ord(t[k]))

\* sorted(modules)
SortedModules(modules) ==
    CHOOSE p \in [1..Len(modules) -> {modules[i] : i \in 1..Len(modules)}] :
        /\ \A i \in 1..Len(modules) : \E j \in 1..Len(modules) : p[j] = modules[i]
        /\ \A i, j \in 1..Len(modules) : i < j => ~StrLess(p[j], p[i])
\* shared_lib_name, had it sorted the names before hashing them
shared_lib_name_sorted(modules) ==
    MYPYC_ \o Hexdigest(StrJoin(<<",">>, SortedModules(modules)))

\* shared_lib_name(modules)
shared_lib_name(modules) ==
    MYPYC_ \o Hexdigest(StrJoin(<<",">>, modules))

\* include_dir(): the lib-rt directory of the installed package
include_dir == <<LIB_RT>>

\* ------------------------------------------------------------------ state
VARIABLES
    platform,          \* sys.platform
    build_dir_exists,  \* the directory 'build' exists
    files,             \* the files of the build directory
    invocations,       \* calls of mypycify so far
    sources,           \* the BuildSources process_options makes of setup.py's paths
    use_shared_lib,    \* mypycify: use_shared_lib of the last call
    lib_name,          \* mypycify: lib_name of the last call (None: <<>>)
    extensions,        \* the list mypycify returned, as build_ext holds it
    outcome,           \* "none", "ok" (mypycify returned), "error" (it exited)
    build,             \* build_ext: "idle", "running", "done", "failed"
    status,            \* build_ext: per extension "pending", "prepared", "compiled", "done"
    locals,            \* build_extension: relative_lib_path and shared_file per extension
    artifacts,         \* the artifacts in build_lib, per extension
    compile_calls,     \* the calls of build_ext.build_extension made, in order
    tool_calls         \* the install_name_tool calls made, in order

vars == <<platform, build_dir_exists, files, invocations, sources, use_shared_lib,
          lib_name, extensions, outcome, build, status, locals, artifacts,
          compile_calls, tool_calls>>

planVars == <<build_dir_exists, files, invocations, use_shared_lib,
              lib_name, extensions, outcome>>
buildVars == <<build, status, locals, artifacts, compile_calls, tool_calls>>

\* ------------------------------------------------------------------ mypycify
\* use_shared_lib = len(sources) > 1 or any('.' in x.module for x in sources),
\* had the test been len(sources) >= 1
UseSharedLibAtLeastOne(srcs) ==
    Len(srcs) >= 1 \/ \E i \in 1..Len(srcs) : Contains(srcs[i].module, ".")

\* use_shared_lib = len(sources) > 1 or any('.' in x.module for x in sources)
UseSharedLib(srcs) ==
    Len(srcs) > 1 \/ \E i \in 1..Len(srcs) : Contains(srcs[i].module, ".")

\* the cflags of mypycify: by compiler.compiler_type ('msvc' on win32, else 'unix')
Cflags(plat) ==
    IF plat = "win32"
    THEN << Flag("/O", <<<<"2">>>>), Flag("/wd4102", <<>>), Flag("/wd4101", <<>>),
            Flag("/wd4146", <<>>) >>
    ELSE << Flag("-O", <<<<"3">>>>), Flag("-Werror", <<>>), Flag("-Wno-unused-function", <<>>) >>

\* generate_c: the (file name, text) pairs compile_modules_to_c returns
GeneratedC == << NATIVE_C, NATIVE_H >>

RECURSIVE WriteCFiles(_, _, _)
\* the loop of mypycify that writes every generated file into build_dir
WriteCFiles(fs, cfiles, build_dir) ==
    IF cfiles = <<>> THEN fs
    ELSE WriteCFiles(WriteFile(fs, PathJoin(build_dir, <<Head(cfiles)>>),
                               Text("generated", <<>>, Head(cfiles))),
                     Tail(cfiles), build_dir)

\* cfilenames of that loop: the written paths whose extension is .c
CFilenames(cfiles, build_dir) ==
    SelectSeq([i \in 1..Len(cfiles) |-> PathJoin(build_dir, <<cfiles[i]>>)],
              LAMBDA p : SplitextExt(PathTail(p)) = DOT_C)

\* generate_c_extension_shim: the path of the shim file
generate_c_extension_shim(full_module_name, dirname) ==
    PathJoin(dirname, << Replace(full_module_name, ".", <<"_", "_", "_">>) \o DOT_C >>)

\* generate_c_extension_shim: the text written, the template of the platform
\* formatted with modname and exported_name(full_module_name)
ShimText(full_module_name, module_name, plat) ==
    Text(IF plat = "win32" THEN "shim_template_windows" ELSE "shim_template_unix",
         module_name, full_module_name)

\* source.module.split('.')[-1]
ShortName(module) == Split(module, ".")[Len(Split(module, "."))]

\* the name of a shim extension, had '.__init__' been appended to every
\* module of a package
ShimExtNameByPackage(source) ==
    IF Len(source.path) > 1
    THEN source.module \o DOT_INIT
    ELSE source.module

\* build_using_shared_lib: full_module_name, the name of a shim extension
ShimExtName(source) ==
    IF PathTail(source.path) = INIT_PY
    THEN source.module \o DOT_INIT
    ELSE source.module

RECURSIVE WriteShims(_, _, _, _)
\* build_using_shared_lib: the shim files its loop writes, in order
WriteShims(fs, srcs, build_dir, plat) ==
    IF srcs = <<>> THEN fs
    ELSE WriteShims(WriteFile(fs, generate_c_extension_shim(Head(srcs).module, build_dir),
                              ShimText(Head(srcs).module, ShortName(Head(srcs).module), plat)),
                    Tail(srcs), build_dir, plat)

\* build_using_shared_lib, had the shims not been given the shared library
build_using_shared_lib_no_target(srcs, name, cfiles, build_dir, extra_compile_args) ==
    << MypycifyExtension(LIB \o name, TRUE, 0, cfiles, <<include_dir>>, extra_compile_args) >>
    \o [ i \in 1..Len(srcs) |->
           MypycifyExtension(ShimExtName(srcs[i]), FALSE, 0,
                             << generate_c_extension_shim(srcs[i].module, build_dir) >>,
                             <<>>, extra_compile_args) ]

\* build_using_shared_lib: the extensions returned; the shared library is the
\* first of the list and every shim refers to it
build_using_shared_lib(srcs, name, cfiles, build_dir, extra_compile_args) ==
    << MypycifyExtension(LIB \o name, TRUE, 0, cfiles, <<include_dir>>, extra_compile_args) >>
    \o [ i \in 1..Len(srcs) |->
           MypycifyExtension(ShimExtName(srcs[i]), FALSE, 1,
                             << generate_c_extension_shim(srcs[i].module, build_dir) >>,
                             <<>>, extra_compile_args) ]

\* build_single_module
build_single_module(srcs, cfiles, extra_compile_args) ==
    << MypycifyExtension(srcs[1].module, FALSE, 0, cfiles, <<include_dir>>,
                         extra_compile_args) >>

\* mypycify exits: sys.exit in process_options or in generate_c
MypycifyExits(usl, name) ==
    /\ use_shared_lib' = usl
    /\ lib_name' = name
    /\ extensions' = <<>>
    /\ outcome' = "error"

\* mypycify(paths, skip_cgen=...), as setup.py calls it every time it is run.
\* typechecks tells whether parse_and_typecheck accepts the sources.
mypycify(skip_cgen, typechecks) ==
    /\ build = "idle"
    /\ invocations < MaxInvocations
    /\ invocations' = invocations + 1
    /\ build_dir_exists' = TRUE                      \* os.mkdir(build_dir)
    /\ UNCHANGED <<platform, sources, buildVars>>
    /\ IF sources = <<>>
       THEN \* process_options: "Missing target module, package, files, or command."
            /\ MypycifyExits(FALSE, None)
            /\ files' = files
       ELSE LET srcs == sources
                build_dir == <<BUILD>>
                usl == UseSharedLib(srcs)
                name == IF usl THEN shared_lib_name(ModuleNames(srcs)) ELSE None
            IN  IF ~skip_cgen /\ ~typechecks
                THEN \* generate_c: fail('Typechecking failure')
                     /\ MypycifyExits(usl, name)
                     /\ files' = files
                ELSE LET fs1 == IF skip_cgen THEN files
                                ELSE WriteCFiles(WriteFile(files, PathJoin(build_dir, <<OPS_TXT>>),
                                                           Text("ops", <<>>, <<>>)),
                                                 GeneratedC, build_dir)
                         cfilenames0 == IF skip_cgen THEN GlobC(files, build_dir)
                                        ELSE CFilenames(GeneratedC, build_dir)
                         rt_file == PathJoin(build_dir, <<CPY_C>>)
                         fs2 == WriteFile(fs1, rt_file, Text("runtime", <<>>, <<>>))
                         cfilenames == Append(cfilenames0, rt_file)
                         cflags == Cflags(platform)
                     IN  /\ use_shared_lib' = usl
                         /\ lib_name' = name
                         /\ outcome' = "ok"
                         /\ IF usl
                            THEN /\ extensions' = build_using_shared_lib(srcs, name, cfilenames,
                                                                         build_dir, cflags)
                                 /\ files' = WriteShims(fs2, srcs, build_dir, platform)
                            ELSE /\ extensions' = build_single_module(srcs, cfilenames, cflags)
                                 /\ files' = fs2

\* ------------------------------------------------------------ MypycifyBuildExt
DOTDOT == <<".", ".">>
CURDIR == <<".">>
ORIGIN == <<"$", "O", "R", "I", "G", "I", "N">>
LOADER_PATH == <<"@", "l", "o", "a", "d", "e", "r", "_", "p", "a", "t", "h">>
BUILD_LIB == <<BUILD, LIB>>

\* the suffix build_ext gives an extension's file
ExtSuffix(plat) == IF plat = "win32" THEN <<".", "p", "y", "d">> ELSE <<".", "s", "o">>

\* build_ext.get_ext_fullpath(ext_name): build_lib, the packages of the name
\* as directories, the last part of the name with the suffix as the file
get_ext_fullpath(ext_name, plat) ==
    LET modpath == Split(ext_name, ".")
    IN  BUILD_LIB \o SubSeq(modpath, 1, Len(modpath) - 1)
                  \o << modpath[Len(modpath)] \o ExtSuffix(plat) >>

\* a build_ext left with two parallel jobs
parallel_jobs == 1 + 1

\* MypycifyBuildExt.__init__: self.parallel = 0
parallel == 0

\* _get_rt_lib_path, had it counted one step for every part of the name
get_rt_lib_path_every_part(ext) ==
    [ k \in 1..Len(Split(ext.name, ".")) |-> DOTDOT ]

\* _get_rt_lib_path, had it taken the module's name without '.__init__'
get_rt_lib_path_of_module(ext) ==
    LET module_parts == SelectSeq(Split(ext.name, "."),
                                  LAMBDA part : part # Tail(DOT_INIT))
    IN  IF Len(module_parts) > 1
        THEN [ k \in 1..(Len(module_parts) - 1) |-> DOTDOT ]
        ELSE << CURDIR >>

\* MypycifyBuildExt._get_rt_lib_path(ext)
get_rt_lib_path(ext) ==
    LET module_parts == Split(ext.name, ".")
    IN  IF Len(module_parts) > 1
        THEN [ k \in 1..(Len(module_parts) - 1) |-> DOTDOT ]
        ELSE << CURDIR >>

\* the locals of build_extension that its last part reads again
Locals(relative_lib_path, shared_file) ==
    [relative_lib_path |-> relative_lib_path, shared_file |-> shared_file]

\* build_extension, before the C build: relative_lib_path and shared_file
PrepareLocals(ext, exts, plat) ==
    IF ext.mypyc_shared_target = 0 THEN Locals(<<>>, <<>>)
    ELSE Locals(get_rt_lib_path(ext),
                PathTail(get_ext_fullpath(exts[ext.mypyc_shared_target].name, plat)))

\* build_extension before the C build, had the runtime search path been added
\* on every platform but Windows
PrepareExtRpathElse(ext, exts, plat) ==
    IF ext.mypyc_shared_target = 0 THEN ext
    ELSE LET relative_lib_path == get_rt_lib_path(ext)
             full == get_ext_fullpath(exts[ext.mypyc_shared_target].name, plat)
             shared_file == PathTail(full)
         IN  IF plat = "win32"
             THEN [ext EXCEPT !.extra_compile_args =
                      @ \o << Flag("/DMYPYC_LIBRARY", PathJoin(relative_lib_path, <<shared_file>>)) >>]
             ELSE [ext EXCEPT !.libraries = Append(@, SubSeq(SplitextRoot(shared_file), 4,
                                                             Len(SplitextRoot(shared_file)))),
                              !.library_dirs = Append(@, PathHead(full)),
                              !.runtime_library_dirs =
                                  Append(@, PathJoin(<<ORIGIN>>, relative_lib_path))]

\* build_extension before the C build: what it changes of the extension
PrepareExt(ext, exts, plat) ==
    IF ext.mypyc_shared_target = 0 THEN ext
    ELSE LET relative_lib_path == get_rt_lib_path(ext)
             full == get_ext_fullpath(exts[ext.mypyc_shared_target].name, plat)
             shared_dir == PathHead(full)
             shared_file == PathTail(full)
             shared_name == SubSeq(SplitextRoot(shared_file), 4, Len(SplitextRoot(shared_file)))
         IN  IF plat = "win32"
             THEN [ext EXCEPT !.extra_compile_args =
                      @ \o << Flag("/DMYPYC_LIBRARY", PathJoin(relative_lib_path, <<shared_file>>)) >>]
             ELSE LET linked == [ext EXCEPT !.libraries = Append(@, shared_name),
                                            !.library_dirs = Append(@, shared_dir)]
                  IN  IF plat = "linux"
                      THEN [linked EXCEPT !.runtime_library_dirs =
                               Append(@, PathJoin(<<ORIGIN>>, relative_lib_path))]
                      ELSE linked

\* ------------------------------------------------------------------ artifacts
NoArtifact == [built |-> FALSE, path |-> <<>>, id |-> <<>>, needed |-> <<>>]

\* the built artifacts the linker finds for ext.libraries in ext.library_dirs
LinkedAgainst(ext, arts, plat) ==
    { j \in 1..Len(arts) :
        /\ arts[j].built
        /\ \E k \in 1..Len(ext.libraries) :
             /\ PathHead(arts[j].path) = ext.library_dirs[k]
             /\ PathTail(arts[j].path) = LIB \o ext.libraries[k] \o ExtSuffix(plat) }

\* the artifact the C build leaves: its install name is the output path on
\* macOS and the file name elsewhere; it records the install name of every
\* library it was linked against
BuiltArtifact(ext, arts, plat) ==
    LET out_path == get_ext_fullpath(ext.name, plat)
    IN  [ built |-> TRUE,
          path |-> out_path,
          id |-> IF plat = "darwin" THEN out_path ELSE <<PathTail(out_path)>>,
          needed |-> SetToSeq({ arts[j].id : j \in LinkedAgainst(ext, arts, plat) }) ]

\* the C build can succeed: every library named is found
Links(ext, arts, plat) ==
    \A k \in 1..Len(ext.libraries) :
        \E j \in LinkedAgainst(ext, arts, plat) :
            PathTail(arts[j].path) = LIB \o ext.libraries[k] \o ExtSuffix(plat)

ToolCall(i, op, old, new, file, ok) ==
    [ext |-> i, op |-> op, old |-> old, new |-> new, file |-> file, ok |-> ok]

\* build_extension after the C build: the install_name_tool call it makes for
\* the extension on macOS
PatchCall(i, ext, loc, plat, ok) ==
    LET out_path == get_ext_fullpath(ext.name, plat)
    IN  IF ext.is_mypyc_shared
        THEN ToolCall(i, "-id", <<>>, <<PathTail(out_path)>>, out_path, ok)
        ELSE ToolCall(i, "-change", <<loc.shared_file>>,
                      PathJoin(PathJoin(<<LOADER_PATH>>, loc.relative_lib_path),
                               <<loc.shared_file>>),
                      out_path, ok)

\* what install_name_tool does to the artifact
Patched(art, call) ==
    IF call.op = "-id" THEN [art EXCEPT !.id = call.new]
    ELSE [art EXCEPT !.needed = [k \in 1..Len(@) |-> IF @[k] = call.old THEN call.new ELSE @[k]]]

\* the post-link tool is called for the extension
NeedsPatch(ext, plat) ==
    plat = "darwin" /\ (ext.is_mypyc_shared \/ ext.mypyc_shared_target # 0)

\* --------------------------------------------------------- build_extensions
InProgress(i) == status[i] \in {"prepared", "compiled"}

\* build_ext.build_extensions: with parallel = 0 the extensions are built one
\* after the other in the order of the list, otherwise by that many workers
Startable(i) ==
    /\ status[i] = "pending"
    /\ IF parallel = 0
       THEN \A j \in 1..(i - 1) : status[j] = "done"
       ELSE Cardinality({ j \in 1..Len(status) : InProgress(j) }) < parallel

\* an exception of build_extension when the failure is swallowed and the
\* next extension is built (as build_ext does for optional extensions)
RaisedAndSwallowed(i) ==
    [build |-> "running", status |-> [status EXCEPT ![i] = "done"]]

\* an exception of build_extension leaves build_extensions and the command
Raised(i) ==
    [build |-> "failed", status |-> status]

\* setup(ext_modules=mypycify(...), cmdclass={'build_ext': MypycifyBuildExt})
\* runs the command over the extensions mypycify returned
BuildExtRun ==
    /\ outcome = "ok"
    /\ build = "idle"
    /\ build' = "running"
    /\ status' = [i \in 1..Len(extensions) |-> "pending"]
    /\ locals' = [i \in 1..Len(extensions) |-> Locals(<<>>, <<>>)]
    /\ artifacts' = [i \in 1..Len(extensions) |-> NoArtifact]
    /\ compile_calls' = <<>>
    /\ tool_calls' = <<>>
    /\ UNCHANGED <<platform, sources, planVars>>

\* build_extension(ext), up to the C build
Prepare(i) ==
    /\ build = "running"
    /\ Startable(i)
    /\ status' = [status EXCEPT ![i] = "prepared"]
    /\ extensions' = [extensions EXCEPT ![i] = PrepareExt(extensions[i], extensions, platform)]
    /\ locals' = [locals EXCEPT ![i] = PrepareLocals(extensions[i], extensions, platform)]
    /\ UNCHANGED <<platform, build_dir_exists, files, invocations, sources, use_shared_lib,
                   lib_name, outcome, build, artifacts, compile_calls, tool_calls>>

\* build_extension(ext): super().build_extension(ext), which raises when the
\* compiler or the linker fails
Compile(i, ok) ==
    /\ build = "running"
    /\ status[i] = "prepared"
    /\ compile_calls' = Append(compile_calls, [ext |-> i, ok |-> ok])
    /\ IF ok
       THEN /\ Links(extensions[i], artifacts, platform)
            /\ artifacts' = [artifacts EXCEPT ![i] = BuiltArtifact(extensions[i], artifacts, platform)]
            /\ status' = [status EXCEPT ![i] = "compiled"]
            /\ build' = build
       ELSE /\ artifacts' = artifacts
            /\ status' = Raised(i).status
            /\ build' = Raised(i).build
    /\ UNCHANGED <<platform, sources, planVars, locals, tool_calls>>

\* build_extension(ext), after the C build: on macOS install_name_tool is run
\* (check_call raises when it exits non-zero)
Patch(i, ok) ==
    /\ build = "running"
    /\ status[i] = "compiled"
    /\ IF NeedsPatch(extensions[i], platform)
       THEN LET call == PatchCall(i, extensions[i], locals[i], platform, ok)
            IN  /\ tool_calls' = Append(tool_calls, call)
                /\ IF ok
                   THEN /\ artifacts' = [artifacts EXCEPT ![i] = Patched(@, call)]
                        /\ status' = [status EXCEPT ![i] = "done"]
                        /\ build' = build
                   ELSE /\ artifacts' = artifacts
                        /\ status' = Raised(i).status
                        /\ build' = Raised(i).build
       ELSE /\ ok
            /\ tool_calls' = tool_calls
            /\ artifacts' = artifacts
            /\ status' = [status EXCEPT ![i] = "done"]
            /\ build' = build
    /\ UNCHANGED <<platform, sources, planVars, locals, compile_calls>>

\* build_extensions returns: every extension is built
Finish ==
    /\ build = "running"
    /\ \A i \in 1..Len(status) : status[i] = "done"
    /\ build' = "done"
    /\ UNCHANGED <<platform, sources, planVars, status, locals, artifacts, compile_calls,
                   tool_calls>>

Init ==
    /\ platform \in Platforms
    /\ build_dir_exists = FALSE
    /\ files = {}
    /\ invocations = 0
    /\ sources \in SourceLists
    /\ use_shared_lib = FALSE
    /\ lib_name = None
    /\ extensions = <<>>
    /\ outcome = "none"
    /\ build = "idle"
    /\ status = <<>>
    /\ locals = <<>>
    /\ artifacts = <<>>
    /\ compile_calls = <<>>
    /\ tool_calls = <<>>

Next ==
    \/ \E skip_cgen \in BOOLEAN, typechecks \in BOOLEAN : mypycify(skip_cgen, typechecks)
    \/ BuildExtRun
    \/ \E i \in 1..Len(status) : Prepare(i)
    \/ \E i \in 1..Len(status), ok \in BOOLEAN : Compile(i, ok)
    \/ \E i \in 1..Len(status), ok \in BOOLEAN : Patch(i, ok)
    \/ Finish

Spec == Init /\ [][Next]_vars

\* ===================================================================== claims
\* the number of '.' in a name
Dots(name) == Cardinality({ k \in 1..Len(name) : name[k] = "." })

\* the positions of the shared-library extensions of the list
SharedExts == { k \in 1..Len(extensions) : extensions[k].is_mypyc_shared }

\* the positions of the shim extensions of the list
ShimExts == { k \in 1..Len(extensions) : extensions[k].mypyc_shared_target # 0 }

\* the source a shim extension was made for: the extensions other than the
\* shared library follow the order of the sources
SourceOf(k) ==
    LET s == CHOOSE s \in SharedExts : TRUE
    IN  sources[IF k < s THEN k ELSE k - 1]

ShimKinds == {"shim_template_unix", "shim_template_windows"}

\* C1: for every non-empty list of modules mypycify chooses the shared
\* strategy (use_shared_lib true, a library name computed, a shared-library
\* extension returned) if and only if the list has more than one module or a
\* module is a package member; it chooses the single strategy exactly when
\* there is one module and it is no package member.
C1_StrategySelection ==
    LET many == Len(sources) > 1
        member == \E i \in 1..Len(sources) : Len(Split(sources[i].module, ".")) > 1
    IN  /\ (outcome # "none" /\ sources # <<>>) =>
              /\ use_shared_lib <=> (many \/ member)
              /\ use_shared_lib <=> (lib_name # None)
        /\ outcome = "ok" =>
              /\ (SharedExts # {}) <=> (many \/ member)
              /\ (SharedExts = {}) <=> (Len(sources) = 1 /\ ~member)

\* C1: a single package member is built with the shared strategy
C1_Witness ==
    /\ outcome = "ok"
    /\ Len(sources) = 1
    /\ use_shared_lib
    /\ SharedExts # {}

\* C2: the list mypycify returns satisfies the strategy invariant: in a
\* shared build of N modules it has N+1 extensions, exactly one of them has
\* is_mypyc_shared and no target, and every other one is a shim whose target
\* is that extension and whose only source is its own shim file; in a single
\* build it has one extension, named after the module, not shared and without
\* target, and no shim file is written.
C2_StrategyInvariant ==
    outcome = "ok" =>
        IF use_shared_lib
        THEN /\ Len(extensions) = Len(sources) + 1
             /\ Cardinality(SharedExts) = 1
             /\ \A s \in SharedExts :
                  /\ extensions[s].mypyc_shared_target = 0
                  /\ \A k \in (1..Len(extensions)) \ {s} :
                       /\ ~extensions[k].is_mypyc_shared
                       /\ extensions[k].mypyc_shared_target = s
                       /\ extensions[k].sources =
                            << <<BUILD>> \o << Replace(SourceOf(k).module, ".", <<"_", "_", "_">>)
                                               \o DOT_C >> >>
                       /\ \E f \in files : /\ f.path = extensions[k].sources[1]
                                           /\ f.content.kind \in ShimKinds
        ELSE /\ Len(extensions) = 1
             /\ extensions[1].name = sources[1].module
             /\ ~extensions[1].is_mypyc_shared
             /\ extensions[1].mypyc_shared_target = 0
             /\ \A f \in files : f.content.kind \notin ShimKinds

\* C2: a shared build of two modules has returned its three extensions
C2_Witness ==
    /\ outcome = "ok"
    /\ use_shared_lib
    /\ Len(sources) = 2
    /\ Len(extensions) = 3
    /\ ShimExts = {2, 3}

\* C3: in every run of a shared build through MypycifyBuildExt the compile
\* step and the post-link patch step of the shared library have completed
\* before the prepare, compile or patch step of any shim that refers to it
\* begins, and no two extensions are in progress at the same time.
C3_SharedLibraryFirst ==
    build # "idle" =>
        /\ parallel = 0
        /\ use_shared_lib => SharedExts = {1}
        /\ \A i \in ShimExts :
             status[i] # "pending" =>
                LET t == extensions[i].mypyc_shared_target
                IN  /\ status[t] = "done"
                    /\ artifacts[t].built
                    /\ \E k \in 1..Len(compile_calls) :
                          compile_calls[k].ext = t /\ compile_calls[k].ok
                    /\ platform = "darwin" =>
                          \E k \in 1..Len(tool_calls) :
                              /\ tool_calls[k].ext = t
                              /\ tool_calls[k].op = "-id"
                              /\ tool_calls[k].ok
        /\ Cardinality({ i \in 1..Len(status) : status[i] \in {"prepared", "compiled"} }) <= 1

\* C3: on macOS a shim is being built after the shared library was compiled
\* and patched, while a second shim waits
C3_Witness ==
    /\ build = "running"
    /\ platform = "darwin"
    /\ \E i, j \in ShimExts :
          /\ status[i] = "compiled"
          /\ status[j] = "pending"
          /\ status[extensions[i].mypyc_shared_target] = "done"

\* the library name another build, of the source list l, is given
NameOfBuild(l) == LIB \o shared_lib_name(ModuleNames(l))

\* the module names of a source list, as a set
ModuleSet(l) == { l[i].module : i \in 1..Len(l) }

\* C4 as stated: the name of the shared library depends only on the set of
\* module names: a shared build of the same names, in the same or in another
\* order, gets the same name, and a build of another set of names another.
C4_NameBySet ==
    (outcome = "ok" /\ use_shared_lib /\ build = "idle") =>
        \A l \in SourceLists :
            UseSharedLib(l) =>
                ((NameOfBuild(l) = extensions[1].name) <=> (ModuleSet(l) = ModuleSet(sources)))

\* C4 as amended: the name of the shared library is derived from a hash of
\* the module names in the order of the list (nothing sorts them): a shared
\* build of the same names in the same order gets the same name, and a build
\* whose list differs, in its names or only in their order, another name.
\* Read where mypycify has returned: build_ext never renames an extension.
C4_NameByList ==
    (outcome = "ok" /\ use_shared_lib /\ build = "idle") =>
        /\ extensions[1].is_mypyc_shared
        /\ extensions[1].name = LIB \o lib_name
        /\ \A l \in SourceLists :
             UseSharedLib(l) =>
                ((NameOfBuild(l) = extensions[1].name) <=> (ModuleNames(l) = ModuleNames(sources)))

\* C4: a shared build of two modules, of which the build of the same modules
\* in the other order is a second one
C4_Witness ==
    /\ outcome = "ok"
    /\ use_shared_lib
    /\ build = "idle"
    /\ Len(sources) = 2
    /\ \E l \in SourceLists :
          /\ ModuleSet(l) = ModuleSet(sources)
          /\ ModuleNames(l) # ModuleNames(sources)
          /\ NameOfBuild(l) # extensions[1].name

\* n parent-directory steps, the current directory for none
Steps(n) == IF n = 0 THEN << <<".">> >> ELSE [ k \in 1..n |-> <<".", ".">> ]

\* C5 as stated: the offset _get_rt_lib_path computes for a shim is as many
\* parent-directory steps as the module's fully-qualified name has dots, and
\* the current directory for a top-level module.
C5_StepsByModuleDepth ==
    \A i \in ShimExts :
        (build # "idle" /\ status[i] # "pending") =>
            locals[i].relative_lib_path = Steps(Dots(SourceOf(i).module))

\* C5 as amended: the offset is as many parent-directory steps as the name
\* of the shim extension has dots, that is the dots of the module's name and
\* one more when the module is a package initializer (its extension is named
\* module.__init__), and the current directory when there is none.
C5_StepsByExtensionName ==
    \A i \in ShimExts :
        (build # "idle" /\ status[i] # "pending") =>
            LET source == SourceOf(i)
                initializer == source.path[Len(source.path)] = INIT_PY
            IN  locals[i].relative_lib_path =
                    Steps(Dots(source.module) + (IF initializer THEN 1 ELSE 0))

\* C5: the shims of a/b/c.py (two steps) and of the package initializer
\* a/__init__.py (one step) have been prepared
C5_Witness ==
    /\ build # "idle"
    /\ \E i \in ShimExts :
          /\ status[i] # "pending"
          /\ SourceOf(i).module = <<"a", ".", "b", ".", "c">>
          /\ locals[i].relative_lib_path = << <<".", ".">>, <<".", ".">> >>
    /\ \E i \in ShimExts :
          /\ status[i] # "pending"
          /\ SourceOf(i).path = << <<"a">>, INIT_PY >>
          /\ locals[i].relative_lib_path = << <<".", ".">> >>

\* C6: when mypycify is called with an empty module set the call ends in a
\* configuration error, no extensions are produced and the build directory is
\* not created (it did not exist before the first call).
C6_EmptySetCreatesNothing ==
    (sources = <<>> /\ invocations = 1) =>
        /\ outcome = "error"
        /\ extensions = <<>>
        /\ ~build_dir_exists

\* a step of the build has failed: the C build or the post-link tool
StepFailed ==
    \/ \E k \in 1..Len(compile_calls) : ~compile_calls[k].ok
    \/ \E k \in 1..Len(tool_calls) : ~tool_calls[k].ok

\* C7: when the C build or the post-link tool of an extension fails, the
\* build ends failed: the failing step is not retried, no later extension is
\* prepared, compiled or patched, and the artifacts already built stay as
\* they are.
C7_FailureAborts ==
    /\ [](StepFailed => build = "failed")
    /\ [][StepFailed => UNCHANGED <<status, extensions, locals, artifacts,
                                    compile_calls, tool_calls>>]_vars
    /\ [](\A k, m \in 1..Len(compile_calls) :
             compile_calls[k].ext = compile_calls[m].ext => k = m)
    /\ [](\A k, m \in 1..Len(tool_calls) :
             tool_calls[k].ext = tool_calls[m].ext => k = m)

\* C7: the post-link tool has failed on a shim after the shared library was
\* built, with another shim still to build
C7_Witness ==
    /\ build = "failed"
    /\ \E k \in 1..Len(tool_calls) :
          /\ ~tool_calls[k].ok
          /\ tool_calls[k].ext \in ShimExts
          /\ artifacts[extensions[tool_calls[k].ext].mypyc_shared_target].built
    /\ \E j \in ShimExts : status[j] = "pending"

\* C8: in a shared build the name of a shim extension is the module's
\* fully-qualified name with '.__init__' appended if and only if the
\* basename of the module's source path is '__init__.py'; otherwise it is the
\* module's name unchanged.
C8_InitSuffix ==
    (outcome = "ok" /\ use_shared_lib) =>
        \A k \in ShimExts :
            LET source == SourceOf(k)
                initializer == source.path[Len(source.path)] = INIT_PY
                suffixed == source.module \o <<".", "_", "_", "i", "n", "i", "t", "_", "_">>
            IN  /\ initializer => extensions[k].name = suffixed
                /\ ~initializer => extensions[k].name = source.module
                /\ (extensions[k].name = suffixed) <=> initializer

\* C8: a shared build of a package initializer and of a package member that
\* is none
C8_Witness ==
    /\ outcome = "ok"
    /\ use_shared_lib
    /\ \E k \in ShimExts :
          /\ SourceOf(k).path = << <<"a">>, INIT_PY >>
          /\ extensions[k].name = <<"a">> \o DOT_INIT
    /\ \E k \in ShimExts :
          /\ SourceOf(k).path = << <<"a">>, <<"b", ".", "p", "y">> >>
          /\ extensions[k].name = <<"a", ".", "b">>

\* the entries of a shim's extra_compile_args that define MYPYC_LIBRARY
Defines(e) ==
    { k \in 1..Len(e.extra_compile_args) : e.extra_compile_args[k].opt = "/DMYPYC_LIBRARY" }

\* the post-link tool calls made for an extension
CallsFor(i) == { k \in 1..Len(tool_calls) : tool_calls[k].ext = i }

\* C9: for every shim build_extension applies exactly one relative-location
\* mechanism, chosen by platform and always with the offset of
\* _get_rt_lib_path: on Windows only the MYPYC_LIBRARY define (offset joined
\* with the shared library's file name), added before the C build, without
\* linking against the shared library; on Linux only the '$ORIGIN/<offset>'
\* runtime search path, added before the C build; on macOS only the
\* post-link '-change' of the shared file to '@loader_path/<offset>/<file>',
\* after the C build.  The tool is never called on Windows or Linux, and
\* never for the extension of a single build.
C9_OneMechanismPerPlatform ==
    build # "idle" =>
        /\ platform \in {"win32", "linux"} => tool_calls = <<>>
        /\ ~use_shared_lib => tool_calls = <<>>
        /\ \A i \in 1..Len(extensions) : CallsFor(i) # {} => artifacts[i].built
        /\ \A i \in ShimExts :
             LET e == extensions[i]
                 shared_file == PathTail(get_ext_fullpath(extensions[e.mypyc_shared_target].name,
                                                          platform))
                 offset == get_rt_lib_path(e)
             IN  IF status[i] = "pending"
                 THEN /\ Defines(e) = {}
                      /\ e.libraries = <<>>
                      /\ e.runtime_library_dirs = <<>>
                      /\ CallsFor(i) = {}
                 ELSE /\ locals[i].relative_lib_path = offset
                      /\ platform = "win32" =>
                           /\ Cardinality(Defines(e)) = 1
                           /\ \A k \in Defines(e) :
                                e.extra_compile_args[k].val = offset \o <<shared_file>>
                           /\ e.libraries = <<>>
                           /\ e.library_dirs = <<>>
                           /\ e.runtime_library_dirs = <<>>
                           /\ CallsFor(i) = {}
                      /\ platform = "linux" =>
                           /\ Defines(e) = {}
                           /\ e.runtime_library_dirs = << <<ORIGIN>> \o offset >>
                           /\ Len(e.libraries) = 1
                           /\ CallsFor(i) = {}
                      /\ platform = "darwin" =>
                           /\ Defines(e) = {}
                           /\ e.runtime_library_dirs = <<>>
                           /\ Len(e.libraries) = 1
                           /\ Cardinality(CallsFor(i)) <= 1
                           /\ status[i] \in {"prepared"} => CallsFor(i) = {}
                           /\ status[i] = "done" => Cardinality(CallsFor(i)) = 1
                           /\ \A k \in CallsFor(i) :
                                /\ tool_calls[k].op = "-change"
                                /\ tool_calls[k].old = <<shared_file>>
                                /\ tool_calls[k].new = <<LOADER_PATH>> \o offset \o <<shared_file>>
                                /\ tool_calls[k].file = artifacts[i].path

\* C9: on macOS the shim of a nested module is done, its reference to the
\* shared library rewritten relative to @loader_path
C9_Witness ==
    /\ build # "idle"
    /\ platform = "darwin"
    /\ \E i \in ShimExts :
          /\ status[i] = "done"
          /\ Len(locals[i].relative_lib_path) = 2
          /\ \E k \in CallsFor(i) : tool_calls[k].ok /\ tool_calls[k].op = "-change"
          /\ artifacts[i].needed =
                << <<LOADER_PATH>> \o locals[i].relative_lib_path \o <<locals[i].shared_file>> >>

RECURSIVE NormFrom(_, _)
\* os.path.normpath of a relative path p appended to the directory dir
NormFrom(dir, p) ==
    IF p = <<>> THEN dir
    ELSE IF Head(p) = <<".">> THEN NormFrom(dir, Tail(p))
    ELSE IF Head(p) = <<".", ".">> /\ dir # <<>>
         THEN NormFrom(SubSeq(dir, 1, Len(dir) - 1), Tail(p))
    ELSE NormFrom(Append(dir, Head(p)), Tail(p))

\* the directory an extension is installed in: below the build root, the
\* parts of its name but the last as directories
InstallDir(name) ==
    LET parts == Split(name, ".")
    IN  BUILD_LIB \o [ k \in 1..(Len(parts) - 1) |-> parts[k] ]

\* C10: for every shim of a shared build, package initializers (named with
\* the '.__init__' suffix) and top-level modules included, the offset applied
\* to the directory the shim is installed in yields the directory the shared
\* library is installed in, which is the build root.
C10_OffsetReachesSharedLibrary ==
    \A i \in ShimExts :
        (build # "idle" /\ status[i] # "pending") =>
            LET shared == extensions[extensions[i].mypyc_shared_target]
            IN  /\ InstallDir(shared.name) = BUILD_LIB
                /\ NormFrom(InstallDir(extensions[i].name), locals[i].relative_lib_path)
                     = InstallDir(shared.name)
                /\ artifacts[i].built =>
                     NormFrom(PathHead(artifacts[i].path), locals[i].relative_lib_path)
                       = PathHead(get_ext_fullpath(shared.name, platform))

\* C10: the shims of a package initializer two levels deep and of a
\* top-level module are built
C10_Witness ==
    /\ build # "idle"
    /\ \E i \in ShimExts :
          /\ artifacts[i].built
          /\ extensions[i].name = <<"a", ".", "b">> \o DOT_INIT
          /\ Len(locals[i].relative_lib_path) = 2
    /\ \E i \in ShimExts :
          /\ artifacts[i].built
          /\ extensions[i].name = <<"b">>
          /\ locals[i].relative_lib_path = << <<".">> >>

\* the file of the build directory at a path (one at most)
FileAt(path) == { f \in files : f.path = path }

\* C11: within one shared build distinct modules get distinct shim source
\* files: the file-name transform of generate_c_extension_shim (every '.'
\* replaced by '___', '.c' appended) is injective over module names, so no
\* shim written for one module is overwritten by the shim of another, and the
\* source file of every shim extension holds the shim generated for its own
\* module.
C11_DistinctShimFiles ==
    (outcome = "ok" /\ use_shared_lib) =>
        /\ \A k, m \in ShimExts :
             k # m => extensions[k].sources[1] # extensions[m].sources[1]
        /\ \A k \in ShimExts :
             \A f \in FileAt(extensions[k].sources[1]) :
                /\ f.content.kind \in ShimKinds
                /\ f.content.full = SourceOf(k).module
                /\ f.content.modname = Split(SourceOf(k).module, ".")[Len(Split(SourceOf(k).module, "."))]

\* the extension that carries the translation units: the shared library, or
\* the only extension of a single build
Carrier == IF use_shared_lib THEN extensions[CHOOSE s \in SharedExts : TRUE] ELSE extensions[1]

\* the paths of the shim files lying in the build directory
ShimFiles == { f.path : f \in { g \in files : g.content.kind \in ShimKinds } }

\* C12: after any sequence of mypycify calls against the same build
\* directory, with skip_cgen on or off in each, the source list of the
\* extension that carries the translation units contains the runtime-support
\* source build/CPy.c exactly once and no shim source file left in the build
\* directory by this or an earlier call.
C12_CarrierSourcesClean ==
    outcome = "ok" =>
        /\ Cardinality({ k \in 1..Len(Carrier.sources) :
                           Carrier.sources[k] = << <<"b", "u", "i", "l", "d">>,
                                                   <<"C", "P", "y", ".", "c">> >> }) = 1
        /\ \A k \in 1..Len(Carrier.sources) : Carrier.sources[k] \notin ShimFiles

====
